---- MODULE Spec2Model ----
(***************************************************************************)
(* Motor position controller and safety supervisory state machine of the   *)
(* prosthesis firmware.                                                    *)
(*                                                                         *)
(*   motor           the C struct controller (struct motores), the one the *)
(*                   control loop and the encoder interrupt use            *)
(*   mc              the C++ class controller (motorController) it         *)
(*                   replaces, driven with the same calls and readings     *)
(*   estado_protesis the supervisory state machine                         *)
(*                   (Maquina_de_estados_protesis with its                 *)
(*                   Condiciones_Seguridad)                                *)
(*                                                                         *)
(* Floating-point readings are modelled by integer samples around the      *)
(* thresholds; uint16_t arithmetic is kept modulo 2^16.                    *)
(***************************************************************************)
EXTENDS Integers, FiniteSets, Sequences, TLC

VARIABLES
    motor,            \* struct motores + the driver outputs (duty, ph)
    mc,               \* motorController instance + its driver outputs
    ret,              \* return value of the last call on motor / the machine
    retc,             \* return value of the last call on mc
    estado_protesis,  \* Maquina_de_estados_protesis
    velocidad_motor_procesada,  \* duty the control loop passes as velocity
    motorAbrir,       \* flags set by interpretarMaquinaEstados
    motorCerrar,
    motorArrived,     \* arrived flag of the last control tick
    posicionMotor,    \* position published by the last control tick
    presion,          \* statics of checkMotorPressure
    tiempo,           \* esp_timer_get_time(), in seconds
    isr,              \* the encoder interrupt in progress: pc, A, B, leido
    llamada,          \* the rotate call in progress in the control loop
    op                \* name of the last operation executed (history)

motorVars == <<motor, mc, ret, retc>>
supVars == <<estado_protesis>>
loopVars ==
    <<velocidad_motor_procesada, motorAbrir, motorCerrar, motorArrived,
      posicionMotor, presion, tiempo, llamada>>
vars ==
    <<motor, mc, ret, retc, estado_protesis, velocidad_motor_procesada,
      motorAbrir, motorCerrar, motorArrived, posicionMotor, presion, tiempo,
      isr, llamada, op>>

(***************************************************************************)
(* Bounds of the model                                                     *)
(***************************************************************************)
\* largest max_pos explored (POSICION_MAXIMA_MOTOR, scaled down)
MaxPos == 3
\* largest min_pos a controller is initialised with
MaxMinPos == 1
\* most supervised quantities beyond their threshold in one set of readings
MaxFallos == 2

(***************************************************************************)
(* Program constants                                                       *)
(***************************************************************************)
ABRIR == FALSE
CERRAR == TRUE
POSICION_MINIMA_MOTOR == 0
\* 4230 in the program; the explored runs use the scaled travel MaxPos
POSICION_MAXIMA_MOTOR == MaxPos
VELOCIDAD_MOTOR == 80
VELOCIDAD_CALIBRADO == 50
Uint16 == 65536

\* duty values passed as velocity: stopped, the scenario's 120, full scale
Velocidades == {0, 120, 255}

\* uint16_t increment and decrement
Inc16(x) == (x + 1) % Uint16
Dec16(x) == (x + Uint16 - 1) % Uint16

(***************************************************************************)
(* struct motores (C controller)                                           *)
(***************************************************************************)
\* motores_init: position is set to 0 whatever min_pos is; setup_rotary then
\* stores the level read on the dt pin as last_state (parameter nivel_dt).
motores_init(max_pos, min_pos, nivel_dt) ==
    [max_pos |-> max_pos, min_pos |-> min_pos, position |-> 0,
     until |-> FALSE, objective |-> 0, last_state |-> nivel_dt,
     duty |-> 0, ph |-> FALSE]

\* motores_stop_rotation leaving the target armed.
motores_stop_rotation_sin_desarmar(m) == [m EXCEPT !.duty = 0]

motores_stop_rotation(m) == [m EXCEPT !.until = FALSE, !.duty = 0]

motores_read_position(m) == m.position

motores_set_position(m, position) == [m EXCEPT !.position = position]

\* The position update of motores_step with the two directions exchanged.
motores_step_contar_invertido(m, A, B) ==
    IF A # m.last_state
    THEN IF B # A
         THEN IF m.position > m.min_pos
              THEN [m EXCEPT !.position = Dec16(@)]
              ELSE m
         ELSE IF m.position < m.max_pos
              THEN [m EXCEPT !.position = Inc16(@)]
              ELSE m
    ELSE m

\* The position update of motores_step: nothing is done at a bound.
motores_step_contar(m, A, B) ==
    IF A # m.last_state
    THEN IF B = A
         THEN IF m.position > m.min_pos
              THEN [m EXCEPT !.position = Dec16(@)]
              ELSE m
         ELSE IF m.position < m.max_pos
              THEN [m EXCEPT !.position = Inc16(@)]
              ELSE m
    ELSE m

\* The until check of motores_step without the duty write.
motores_step_until_sin_parada(m) ==
    IF m.until /\ (m.position = m.objective)
    THEN [m EXCEPT !.until = FALSE]
    ELSE m

\* The until check of motores_step.
motores_step_until(m) ==
    IF m.until /\ (m.position = m.objective)
    THEN [m EXCEPT !.until = FALSE, !.duty = 0]
    ELSE m

motores_step(m, A, B) ==
    [motores_step_until(motores_step_contar(m, A, B)) EXCEPT !.last_state = A]

\* motores_start_rotation without the duty write at the limit.
motores_start_rotation_sin_parada(m, direction, velocity) ==
    IF direction = ABRIR
    THEN IF m.position > m.min_pos
         THEN [m |-> [m EXCEPT !.duty = velocity, !.ph = direction], ret |-> FALSE]
         ELSE [m |-> m, ret |-> TRUE]
    ELSE IF m.position < m.max_pos
         THEN [m |-> [m EXCEPT !.duty = velocity, !.ph = direction], ret |-> FALSE]
         ELSE [m |-> m, ret |-> TRUE]

\* Returns the struct after the call and the value returned.
motores_start_rotation(m, direction, velocity) ==
    IF direction = ABRIR
    THEN IF m.position > m.min_pos
         THEN [m |-> [m EXCEPT !.duty = velocity, !.ph = direction], ret |-> FALSE]
         ELSE [m |-> [m EXCEPT !.duty = 0], ret |-> TRUE]
    ELSE IF m.position < m.max_pos
         THEN [m |-> [m EXCEPT !.duty = velocity, !.ph = direction], ret |-> FALSE]
         ELSE [m |-> [m EXCEPT !.duty = 0], ret |-> TRUE]

\* motores_start_until returning arrivedToObjective alone.
motores_start_until_sin_limite(m, direction, objective, velocity) ==
    LET m1 == [m EXCEPT !.objective = objective, !.until = TRUE]
    IN  IF direction = ABRIR
        THEN IF m1.position > m1.objective
             THEN [m |-> motores_start_rotation(m1, direction, velocity).m,
                   ret |-> FALSE]
             ELSE [m |-> [m1 EXCEPT !.until = FALSE, !.duty = 0], ret |-> TRUE]
        ELSE IF m1.position < m1.objective
             THEN [m |-> motores_start_rotation(m1, direction, velocity).m,
                   ret |-> FALSE]
             ELSE [m |-> [m1 EXCEPT !.until = FALSE, !.duty = 0], ret |-> TRUE]

motores_start_until(m, direction, objective, velocity) ==
    LET m1 == [m EXCEPT !.objective = objective, !.until = TRUE]
    IN  IF direction = ABRIR
        THEN IF m1.position > m1.objective
             THEN motores_start_rotation(m1, direction, velocity)
             ELSE [m |-> [m1 EXCEPT !.until = FALSE, !.duty = 0], ret |-> TRUE]
        ELSE IF m1.position < m1.objective
             THEN motores_start_rotation(m1, direction, velocity)
             ELSE [m |-> [m1 EXCEPT !.until = FALSE, !.duty = 0], ret |-> TRUE]

(***************************************************************************)
(* class motorController (C++ controller)                                  *)
(***************************************************************************)
motorController_init(max_pos, min_pos) ==
    [max_pos |-> max_pos, min_pos |-> min_pos, position |-> 0,
     until |-> FALSE, objective |-> 0, last_state |-> FALSE,
     duty |-> 0, ph |-> FALSE]

stop_rotation(m) == [m EXCEPT !.until = FALSE, !.duty = 0]

read_position(m) == m.position

set_position(m, position) == [m EXCEPT !.position = position]

step(m, A, B) ==
    LET m1 == IF A # m.last_state
              THEN IF B = A
                   THEN IF m.position > m.min_pos
                        THEN [m EXCEPT !.position = Dec16(@)]
                        ELSE stop_rotation(m)
                   ELSE IF m.position < m.max_pos
                        THEN [m EXCEPT !.position = Inc16(@)]
                        ELSE stop_rotation(m)
              ELSE m
        m2 == IF m1.until /\ (m1.position = m1.objective)
              THEN stop_rotation(m1)
              ELSE m1
    IN  [m2 EXCEPT !.last_state = A]

start_rotation(m, direction, velocity) ==
    IF direction = ABRIR
    THEN IF m.position > m.min_pos
         THEN [m |-> [m EXCEPT !.duty = velocity, !.ph = direction], ret |-> FALSE]
         ELSE [m |-> stop_rotation(m), ret |-> TRUE]
    ELSE IF m.position < m.max_pos
         THEN [m |-> [m EXCEPT !.duty = velocity, !.ph = direction], ret |-> FALSE]
         ELSE [m |-> stop_rotation(m), ret |-> TRUE]

\* start_until answering "arrived" without acting when the same target is
\* already armed.
start_until_ocupado(m, direction, objective, velocity) ==
    LET m1 == [m EXCEPT !.objective = objective, !.until = TRUE]
    IN  IF m.until /\ m.objective = objective
        THEN [m |-> m, ret |-> TRUE]
        ELSE IF direction = ABRIR
        THEN IF m1.position > m1.objective
             THEN start_rotation(m1, direction, velocity)
             ELSE [m |-> stop_rotation(m1), ret |-> TRUE]
        ELSE IF m1.position < m1.objective
             THEN start_rotation(m1, direction, velocity)
             ELSE [m |-> stop_rotation(m1), ret |-> TRUE]

start_until(m, direction, objective, velocity) ==
    LET m1 == [m EXCEPT !.objective = objective, !.until = TRUE]
    IN  IF direction = ABRIR
        THEN IF m1.position > m1.objective
             THEN start_rotation(m1, direction, velocity)
             ELSE [m |-> stop_rotation(m1), ret |-> TRUE]
        ELSE IF m1.position < m1.objective
             THEN start_rotation(m1, direction, velocity)
             ELSE [m |-> stop_rotation(m1), ret |-> TRUE]

(***************************************************************************)
(* Safety supervisory state machine                                        *)
(***************************************************************************)
ESTADO_NORMAL == "ESTADO_NORMAL"
ESTADO_DESCANSO == "ESTADO_DESCANSO"
ESTADO_SEGURIDAD == "ESTADO_SEGURIDAD"
ESTADO_CALIBRADO_UMBRALES == "ESTADO_CALIBRADO_UMBRALES"
ESTADO_CALIBRADO_MOTORES == "ESTADO_CALIBRADO_MOTORES"
Estado_Protesis ==
    {ESTADO_NORMAL, ESTADO_DESCANSO, ESTADO_SEGURIDAD,
     ESTADO_CALIBRADO_UMBRALES, ESTADO_CALIBRADO_MOTORES}

FASE_PAUSA == "FASE_PAUSA"
FASE_PASO_1 == "FASE_PASO_1"
FASE_PASO_2 == "FASE_PASO_2"
FASE_CAMBIO_ESTADO == "FASE_CAMBIO_ESTADO"
Fase_Estado == {FASE_PAUSA, FASE_PASO_1, FASE_PASO_2, FASE_CAMBIO_ESTADO}

causas_ninguna == "causas_ninguna"
causa_sobrecorriente == "causa_sobrecorriente"
causa_sobrecalentameinto == "causa_sobrecalentameinto"
causa_velocidad_excesiva == "causa_velocidad_excesiva"
causa_fuerza_excesiva == "causa_fuerza_excesiva"
causa_perdida_sensores == "causa_perdida_sensores"
causa_error_encoder == "causa_error_encoder"
Causa_Seguridad ==
    {causas_ninguna, causa_sobrecorriente, causa_sobrecalentameinto,
     causa_velocidad_excesiva, causa_fuerza_excesiva, causa_perdida_sensores,
     causa_error_encoder}

UMBRAL_CORRIENTE_DEFAULT == 2
UMBRAL_TEMPERATURA_DEFAULT == 60
UMBRAL_VELOCIDAD_DEFAULT == 100
UMBRAL_FUERZA_DEFAULT == 50

\* Sample readings the sensors deliver: at or below, and above the thresholds.
Corrientes == {1, 3}
Temperaturas == {50, 70}
VelocidadesLeidas == {UMBRAL_VELOCIDAD_DEFAULT, UMBRAL_VELOCIDAD_DEFAULT + 1}
Fuerzas == {UMBRAL_FUERZA_DEFAULT, UMBRAL_FUERZA_DEFAULT + 1}
LecturasTodas ==
    [corriente : Corrientes, temperatura : Temperaturas,
     velocidad : VelocidadesLeidas, fuerza : Fuerzas,
     senal : BOOLEAN, posicion : BOOLEAN]

\* Condiciones_Seguridad::Condiciones_Seguridad
Condiciones_Seguridad ==
    [corriente_motores |-> 0, temperatura |-> 20, velocidad |-> 0, fuerza |-> 0,
     senal_sensores |-> TRUE, posicion |-> TRUE,
     umbral_corriente |-> UMBRAL_CORRIENTE_DEFAULT,
     umbral_temperatura |-> UMBRAL_TEMPERATURA_DEFAULT,
     umbral_velocidad |-> UMBRAL_VELOCIDAD_DEFAULT,
     umbral_fuerza |-> UMBRAL_FUERZA_DEFAULT]

\* Verificar_Causas testing the temperature before the current.
Verificar_Causas_orden_cambiado(c) ==
    IF ~c.senal_sensores THEN causa_perdida_sensores
    ELSE IF ~c.posicion THEN causa_error_encoder
    ELSE IF c.temperatura > c.umbral_temperatura THEN causa_sobrecalentameinto
    ELSE IF c.corriente_motores > c.umbral_corriente THEN causa_sobrecorriente
    ELSE IF c.velocidad > c.umbral_velocidad THEN causa_velocidad_excesiva
    ELSE IF c.fuerza > c.umbral_fuerza THEN causa_fuerza_excesiva
    ELSE causas_ninguna

Verificar_Causas(c) ==
    IF ~c.senal_sensores THEN causa_perdida_sensores
    ELSE IF ~c.posicion THEN causa_error_encoder
    ELSE IF c.corriente_motores > c.umbral_corriente THEN causa_sobrecorriente
    ELSE IF c.temperatura > c.umbral_temperatura THEN causa_sobrecalentameinto
    ELSE IF c.velocidad > c.umbral_velocidad THEN causa_velocidad_excesiva
    ELSE IF c.fuerza > c.umbral_fuerza THEN causa_fuerza_excesiva
    ELSE causas_ninguna

\* actualizacion: the six values read from the sensors (l) overwrite the
\* stored readings.
actualizacion(c, l) ==
    [c EXCEPT !.corriente_motores = l.corriente, !.temperatura = l.temperatura,
              !.velocidad = l.velocidad, !.fuerza = l.fuerza,
              !.senal_sensores = l.senal, !.posicion = l.posicion]

\* actualizacion of the draft with six parameters: each assignment has the
\* parameter on the left and the stored reading on the right, and the
\* parameters are passed by value, so the stored readings keep their values.
actualizacion_parametros(c, l) ==
    LET corriente_actual == c.corriente_motores
        temp_actual == c.temperatura
        velocidad_actual == c.velocidad
        fuerza_actual == c.fuerza
        senal_actual == c.senal_sensores
        posicion_actual == c.posicion
    IN  c

\* The thresholds are fields any caller can set ("umbrales configurables").
UmbralesPosibles ==
    [umbral_corriente : {UMBRAL_CORRIENTE_DEFAULT, UMBRAL_CORRIENTE_DEFAULT + 1},
     umbral_temperatura : {UMBRAL_TEMPERATURA_DEFAULT, UMBRAL_TEMPERATURA_DEFAULT + 10},
     umbral_velocidad : {UMBRAL_VELOCIDAD_DEFAULT, UMBRAL_VELOCIDAD_DEFAULT + 1},
     umbral_fuerza : {UMBRAL_FUERZA_DEFAULT, UMBRAL_FUERZA_DEFAULT + 1}]

ConUmbrales(c, u) ==
    [c EXCEPT !.umbral_corriente = u.umbral_corriente,
              !.umbral_temperatura = u.umbral_temperatura,
              !.umbral_velocidad = u.umbral_velocidad,
              !.umbral_fuerza = u.umbral_fuerza]

\* The machine constructed with problema_resuelto false.
Maquina_de_estados_protesis_sin_resolver ==
    [estado_actual |-> ESTADO_NORMAL, fase_actual |-> FASE_PAUSA,
     error_actual |-> causas_ninguna, condiciones |-> Condiciones_Seguridad,
     en_seguridad |-> FALSE, problema_resuelto |-> FALSE]

\* Maquina_de_estados_protesis::Maquina_de_estados_protesis
Maquina_de_estados_protesis ==
    [estado_actual |-> ESTADO_NORMAL, fase_actual |-> FASE_PAUSA,
     error_actual |-> causas_ninguna, condiciones |-> Condiciones_Seguridad,
     en_seguridad |-> FALSE, problema_resuelto |-> TRUE]

\* Returns the machine after the call and the value returned.
ComprobacionSeguridad(s, l) ==
    IF s.en_seguridad
    THEN [s |-> s, ret |-> TRUE]
    ELSE LET c == actualizacion(s.condiciones, l)
             causa == Verificar_Causas(c)
         IN  IF causa # causas_ninguna
             THEN [s |-> [s EXCEPT !.condiciones = c, !.en_seguridad = TRUE,
                                   !.problema_resuelto = FALSE],
                   ret |-> TRUE]
             ELSE [s |-> [s EXCEPT !.condiciones = c, !.en_seguridad = FALSE,
                                   !.problema_resuelto = TRUE],
                   ret |-> FALSE]

\* The condition of ActivarSeguridad, "if (ComprobacionSeguridad)", names the
\* member function and does not call it: it is true on every call.
ActivarSeguridad_condicion(s) == TRUE

\* ActivarSeguridad with the two entry phases exchanged.
ActivarSeguridad_fases_cambiadas(s, causa) ==
    [s EXCEPT !.estado_actual = ESTADO_SEGURIDAD,
              !.error_actual = causa,
              !.en_seguridad = TRUE,
              !.problema_resuelto = FALSE,
              !.fase_actual = IF causa = causa_fuerza_excesiva
                              THEN FASE_PASO_2
                              ELSE FASE_PASO_1]

ActivarSeguridad(s, causa) ==
    IF ActivarSeguridad_condicion(s)
    THEN [s EXCEPT !.estado_actual = ESTADO_SEGURIDAD,
                   !.error_actual = causa,
                   !.en_seguridad = TRUE,
                   !.problema_resuelto = FALSE,
                   !.fase_actual = IF causa = causa_fuerza_excesiva
                                   THEN FASE_PASO_1
                                   ELSE FASE_PASO_2]
    ELSE s

\* The comparison of Comprobacion_Problema with a strict "<".
Medida_Resuelta_estricta(causa, c) ==
    CASE causa = causa_sobrecorriente -> c.corriente_motores < c.umbral_corriente
      [] causa = causa_sobrecalentameinto -> c.temperatura < c.umbral_temperatura
      [] causa = causa_velocidad_excesiva -> c.velocidad < c.umbral_velocidad
      [] causa = causa_fuerza_excesiva -> c.fuerza < c.umbral_fuerza
      [] causa = causa_perdida_sensores -> c.senal_sensores
      [] causa = causa_error_encoder -> c.posicion
      [] OTHER -> TRUE

\* The comparison Comprobacion_Problema makes for the active cause.
Medida_Resuelta(causa, c) ==
    CASE causa = causa_sobrecorriente -> c.corriente_motores <= c.umbral_corriente
      [] causa = causa_sobrecalentameinto -> c.temperatura <= c.umbral_temperatura
      [] causa = causa_velocidad_excesiva -> c.velocidad <= c.umbral_velocidad
      [] causa = causa_fuerza_excesiva -> c.fuerza <= c.umbral_fuerza
      [] causa = causa_perdida_sensores -> c.senal_sensores
      [] causa = causa_error_encoder -> c.posicion
      [] OTHER -> TRUE

\* The quantities of a set of readings that are beyond their threshold.
Fallos(l) ==
    {causa \in Causa_Seguridad :
        ~Medida_Resuelta(causa, actualizacion(Condiciones_Seguridad, l))}

\* The readings the sensors deliver in the explored runs.
Lecturas == {l \in LecturasTodas : Cardinality(Fallos(l)) <= MaxFallos}

\* Comprobacion_Problema reporting the problem solved whatever is read.
Comprobacion_Problema_siempre_resuelto(s, l) ==
    IF ~s.en_seguridad
    THEN s
    ELSE LET c == actualizacion(s.condiciones, l)
         IN  [s EXCEPT !.condiciones = c, !.problema_resuelto = TRUE]

\* The machine after Comprobacion_Problema. The function returns true when the
\* machine is not latched and ends without a return statement otherwise.
Comprobacion_Problema(s, l) ==
    IF ~s.en_seguridad
    THEN s
    ELSE LET c == actualizacion(s.condiciones, l)
         IN  [s EXCEPT !.condiciones = c,
                       !.problema_resuelto = Medida_Resuelta(s.error_actual, c)]

\* cambiarEstado without the test of en_seguridad.
cambiarEstado_sin_guarda(s, nuevo_estado) ==
    [s EXCEPT !.estado_actual = nuevo_estado]

cambiarEstado(s, nuevo_estado) ==
    IF ~s.en_seguridad
    THEN [s EXCEPT !.estado_actual = nuevo_estado]
    ELSE s

\* cambiarFase leaving safety at FASE_CAMBIO_ESTADO without reading
\* problema_resuelto.
cambiarFase_sin_comprobar(s, nueva_fase) ==
    LET s1 == IF ~s.en_seguridad THEN [s EXCEPT !.fase_actual = nueva_fase] ELSE s
    IN  IF s1.en_seguridad
        THEN CASE s1.fase_actual = FASE_PASO_1 ->
                    [s1 EXCEPT !.fase_actual = FASE_PASO_2]
               [] s1.fase_actual = FASE_PASO_2 ->
                    [s1 EXCEPT !.fase_actual = FASE_CAMBIO_ESTADO]
               [] s1.fase_actual = FASE_CAMBIO_ESTADO ->
                    [s1 EXCEPT !.en_seguridad = FALSE,
                               !.estado_actual = ESTADO_NORMAL]
               [] OTHER -> s1
        ELSE s1

\* cambiarFase storing the requested phase whether latched or not.
cambiarFase_fase_pedida(s, nueva_fase) ==
    LET s1 == [s EXCEPT !.fase_actual = nueva_fase]
    IN  IF s1.en_seguridad
        THEN CASE s1.fase_actual = FASE_PASO_1 ->
                    [s1 EXCEPT !.fase_actual = FASE_PASO_2]
               [] s1.fase_actual = FASE_PASO_2 ->
                    [s1 EXCEPT !.fase_actual = FASE_CAMBIO_ESTADO]
               [] s1.fase_actual = FASE_CAMBIO_ESTADO ->
                    IF s1.problema_resuelto
                    THEN cambiarEstado([s1 EXCEPT !.en_seguridad = FALSE],
                                       ESTADO_NORMAL)
                    ELSE s1
               [] OTHER -> s1
        ELSE s1

cambiarFase(s, nueva_fase) ==
    LET s1 == IF ~s.en_seguridad THEN [s EXCEPT !.fase_actual = nueva_fase] ELSE s
    IN  IF s1.en_seguridad
        THEN CASE s1.fase_actual = FASE_PASO_1 ->
                    [s1 EXCEPT !.fase_actual = FASE_PASO_2]
               [] s1.fase_actual = FASE_PASO_2 ->
                    [s1 EXCEPT !.fase_actual = FASE_CAMBIO_ESTADO]
               [] s1.fase_actual = FASE_CAMBIO_ESTADO ->
                    IF s1.problema_resuelto
                    THEN cambiarEstado([s1 EXCEPT !.en_seguridad = FALSE],
                                       ESTADO_NORMAL)
                    ELSE s1
               [] OTHER -> s1
        ELSE s1

(***************************************************************************)
(* Control loop: activacion_motores.h                                      *)
(***************************************************************************)
\* The phases as the control loop names them (same enumerator values).
FASE_1 == FASE_PAUSA
FASE_2 == FASE_PASO_1
FASE_3 == FASE_PASO_2
FASE_4 == FASE_CAMBIO_ESTADO

\* maquina_cambiarEstado leaving the phase as it was.
maquina_cambiarEstado_sin_fase(s, nuevo_estado) ==
    [s EXCEPT !.estado_actual = nuevo_estado]

\* maquina_cambiarEstado: the plain change of state the control loop calls.
maquina_cambiarEstado(s, nuevo_estado) ==
    [s EXCEPT !.estado_actual = nuevo_estado, !.fase_actual = FASE_1]

\* 2.55 * percent, stored in a float and passed as a uint16_t velocity.
VelocidadProcesada(porcentaje) == (255 * porcentaje) \div 100

\* checkMotorPressure: 3000000 us of stable position, here 3 s.
TiempoEstable == 3
margenPresion == 1
\* tiempoPresion is an unsigned long, 32 bits on the target: it holds the
\* 64-bit microsecond clock modulo 2^32 us = 4294.967296 s, here 4295 s.
PeriodoUlong == 4295
\* seconds the clock is followed after the start and after one such period
MaxEspera == 8

checkMotorPresion_inicial == [posicionAnterior |-> 0, tiempoPresion |-> 0]

\* The statics after the poll and the value returned; the clock value is
\* truncated when it is stored and compared in full.
checkMotorPressure(p, posicionActual, ahora) ==
    LET limiteInferior == IF p.posicionAnterior > margenPresion
                          THEN p.posicionAnterior - margenPresion
                          ELSE 0
        limiteSuperior == (p.posicionAnterior + margenPresion) % Uint16
    IN  IF (posicionActual >= limiteInferior) /\ (posicionActual <= limiteSuperior)
        THEN IF p.tiempoPresion = 0
             THEN [p |-> [posicionAnterior |-> posicionActual, tiempoPresion |-> ahora % PeriodoUlong],
                   ret |-> FALSE]
             ELSE IF (ahora - p.tiempoPresion) >= TiempoEstable
                  THEN [p |-> [p EXCEPT !.tiempoPresion = 0], ret |-> TRUE]
                  ELSE [p |-> [p EXCEPT !.posicionAnterior = posicionActual],
                        ret |-> FALSE]
        ELSE [p |-> [posicionAnterior |-> posicionActual, tiempoPresion |-> ahora % PeriodoUlong],
              ret |-> FALSE]

\* interpretarMaquinaEstados with the flags of FASE_2 and FASE_3 exchanged.
interpretarMaquinaEstados_invertido(s) ==
    IF s.estado_actual \in {ESTADO_NORMAL, ESTADO_CALIBRADO_MOTORES}
    THEN CASE s.fase_actual = FASE_1 -> [abrir |-> FALSE, cerrar |-> FALSE]
           [] s.fase_actual = FASE_2 -> [abrir |-> FALSE, cerrar |-> TRUE]
           [] s.fase_actual = FASE_3 -> [abrir |-> TRUE, cerrar |-> FALSE]
           [] OTHER -> [abrir |-> FALSE, cerrar |-> FALSE]
    ELSE IF s.estado_actual = ESTADO_SEGURIDAD
    THEN CASE s.fase_actual = FASE_1 -> [abrir |-> FALSE, cerrar |-> FALSE]
           [] s.fase_actual = FASE_2 -> [abrir |-> TRUE, cerrar |-> FALSE]
           [] OTHER -> [abrir |-> FALSE, cerrar |-> FALSE]
    ELSE [abrir |-> FALSE, cerrar |-> FALSE]

\* interpretarMaquinaEstados treating ESTADO_SEGURIDAD as ESTADO_NORMAL.
interpretarMaquinaEstados_seguridad_cierra(s) ==
    IF s.estado_actual \in {ESTADO_NORMAL, ESTADO_CALIBRADO_MOTORES,
                            ESTADO_SEGURIDAD}
    THEN CASE s.fase_actual = FASE_1 -> [abrir |-> FALSE, cerrar |-> FALSE]
           [] s.fase_actual = FASE_2 -> [abrir |-> TRUE, cerrar |-> FALSE]
           [] s.fase_actual = FASE_3 -> [abrir |-> FALSE, cerrar |-> TRUE]
           [] OTHER -> [abrir |-> FALSE, cerrar |-> FALSE]
    ELSE [abrir |-> FALSE, cerrar |-> FALSE]

\* The flags motorAbrir and motorCerrar for a state and phase.
interpretarMaquinaEstados(s) ==
    IF s.estado_actual \in {ESTADO_NORMAL, ESTADO_CALIBRADO_MOTORES}
    THEN CASE s.fase_actual = FASE_1 -> [abrir |-> FALSE, cerrar |-> FALSE]
           [] s.fase_actual = FASE_2 -> [abrir |-> TRUE, cerrar |-> FALSE]
           [] s.fase_actual = FASE_3 -> [abrir |-> FALSE, cerrar |-> TRUE]
           [] OTHER -> [abrir |-> FALSE, cerrar |-> FALSE]
    ELSE IF s.estado_actual = ESTADO_SEGURIDAD
    THEN CASE s.fase_actual = FASE_1 -> [abrir |-> FALSE, cerrar |-> FALSE]
           [] s.fase_actual = FASE_2 -> [abrir |-> TRUE, cerrar |-> FALSE]
           [] OTHER -> [abrir |-> FALSE, cerrar |-> FALSE]
    ELSE [abrir |-> FALSE, cerrar |-> FALSE]

abrirMotor(m, velocidad) ==
    motores_start_until(m, ABRIR, POSICION_MINIMA_MOTOR, velocidad)

\* cerrarMotor polling the detector in every mode.
cerrarMotor_sin_modo(m, velocidad, s, p, ahora) ==
    LET llegado == motores_start_until(m, CERRAR, POSICION_MAXIMA_MOTOR, velocidad)
        presionando == checkMotorPressure(p, motores_read_position(llegado.m), ahora)
    IN  [m |-> llegado.m, p |-> presionando.p,
         ret |-> llegado.ret \/ presionando.ret]

\* Returns the controller, the detector statics and the value returned.
cerrarMotor(m, velocidad, s, p, ahora) ==
    LET llegado == motores_start_until(m, CERRAR, POSICION_MAXIMA_MOTOR, velocidad)
        presionando == IF s.estado_actual = ESTADO_NORMAL
                       THEN checkMotorPressure(p, motores_read_position(llegado.m), ahora)
                       ELSE [p |-> p, ret |-> FALSE]
    IN  [m |-> llegado.m, p |-> presionando.p,
         ret |-> llegado.ret \/ presionando.ret]

pararMotor(m) == motores_stop_rotation(m)

\* One control tick: the controller, the machine, the detector statics, the
\* flags and the outputs after activacionMotores.
activacionMotores(m, s, p, ahora) ==
    LET velocidad == IF s.estado_actual \in {ESTADO_CALIBRADO_MOTORES,
                                             ESTADO_CALIBRADO_UMBRALES}
                     THEN VelocidadProcesada(VELOCIDAD_CALIBRADO)
                     ELSE VelocidadProcesada(VELOCIDAD_MOTOR)
        flags == interpretarMaquinaEstados(s)
        mov == IF flags.abrir
               THEN [m |-> abrirMotor(m, velocidad).m, p |-> p,
                     ret |-> abrirMotor(m, velocidad).ret]
               ELSE IF flags.cerrar
               THEN cerrarMotor(m, velocidad, s, p, ahora)
               ELSE [m |-> pararMotor(m), p |-> p, ret |-> FALSE]
        posicionIntermedia == (POSICION_MAXIMA_MOTOR + POSICION_MINIMA_MOTOR) \div 2
        cal == IF s.estado_actual = ESTADO_CALIBRADO_MOTORES
               THEN IF s.fase_actual # FASE_4
                    THEN [m |-> motores_set_position(mov.m, posicionIntermedia),
                          s |-> s]
                    ELSE [m |-> motores_set_position(mov.m, 0),
                          s |-> maquina_cambiarEstado(s, ESTADO_NORMAL)]
               ELSE [m |-> mov.m, s |-> s]
    IN  [m |-> cal.m, s |-> cal.s, p |-> mov.p, velocidad |-> velocidad,
         abrir |-> flags.abrir, cerrar |-> flags.cerrar, arrived |-> mov.ret,
         posicionMotor |-> motores_read_position(cal.m)]

(***************************************************************************)
(* Initial states                                                          *)
(***************************************************************************)
\* No rotate call in progress. visto is the position the limit check of the
\* call read, emitida the position read for the command last issued, escrito
\* whether a command has written the phase pin.
llamada_reposo ==
    [pc |-> "reposo", direction |-> ABRIR, velocity |-> 0, visto |-> 0,
     emitida |-> 0, escrito |-> FALSE]

\* No encoder interrupt in progress.
isr_reposo == [pc |-> "reposo", A |-> FALSE, B |-> FALSE, leido |-> 0]

\* A controller initialised with any limits min_pos <= max_pos.
Init ==
    /\ \E mn \in 0..MaxMinPos : \E mx \in mn..MaxPos : \E nivel \in BOOLEAN :
          /\ motor = motores_init(mx, mn, nivel)
          /\ mc = motorController_init(mx, mn)
    /\ ret = FALSE
    /\ retc = FALSE
    /\ estado_protesis = Maquina_de_estados_protesis
    /\ velocidad_motor_procesada = VelocidadProcesada(VELOCIDAD_MOTOR)
    /\ motorAbrir = FALSE
    /\ motorCerrar = FALSE
    /\ motorArrived = FALSE
    /\ posicionMotor = 0
    /\ presion = checkMotorPresion_inicial
    /\ tiempo = 1
    /\ isr = isr_reposo
    /\ llamada = llamada_reposo
    /\ op = "init"

\* The program's controller: iniciaEncoder passes POSICION_MAXIMA_MOTOR and
\* POSICION_MINIMA_MOTOR.
InitPrograma ==
    /\ \E nivel \in BOOLEAN :
          motor = motores_init(MaxPos, POSICION_MINIMA_MOTOR, nivel)
    /\ mc = motorController_init(MaxPos, POSICION_MINIMA_MOTOR)
    /\ ret = FALSE
    /\ retc = FALSE
    /\ estado_protesis = Maquina_de_estados_protesis
    /\ velocidad_motor_procesada = VelocidadProcesada(VELOCIDAD_MOTOR)
    /\ motorAbrir = FALSE
    /\ motorCerrar = FALSE
    /\ motorArrived = FALSE
    /\ posicionMotor = 0
    /\ presion = checkMotorPresion_inicial
    /\ tiempo = 1
    /\ isr = isr_reposo
    /\ llamada = llamada_reposo
    /\ op = "init"

\* The supervisory machine alone: the controller takes no part and rests as
\* initialised with the dt pin low.
InitSup ==
    /\ motor = motores_init(MaxPos, POSICION_MINIMA_MOTOR, FALSE)
    /\ mc = motorController_init(MaxPos, POSICION_MINIMA_MOTOR)
    /\ ret = FALSE
    /\ retc = FALSE
    /\ estado_protesis = Maquina_de_estados_protesis
    /\ velocidad_motor_procesada = VelocidadProcesada(VELOCIDAD_MOTOR)
    /\ motorAbrir = FALSE
    /\ motorCerrar = FALSE
    /\ motorArrived = FALSE
    /\ posicionMotor = 0
    /\ presion = checkMotorPresion_inicial
    /\ tiempo = 1
    /\ isr = isr_reposo
    /\ llamada = llamada_reposo
    /\ op = "init"

(***************************************************************************)
(* Operations of the controllers: each call is made on both with the same  *)
(* arguments and the same channel readings.                                *)
(***************************************************************************)
Op_step(A, B) ==
    /\ motor' = motores_step(motor, A, B)
    /\ mc' = step(mc, A, B)
    /\ ret' = FALSE
    /\ retc' = FALSE
    /\ op' = "step"
    /\ UNCHANGED <<supVars, loopVars, isr>>

Op_start_rotation(direction, velocity) ==
    /\ motor' = motores_start_rotation(motor, direction, velocity).m
    /\ ret' = motores_start_rotation(motor, direction, velocity).ret
    /\ mc' = start_rotation(mc, direction, velocity).m
    /\ retc' = start_rotation(mc, direction, velocity).ret
    /\ op' = "start_rotation"
    /\ UNCHANGED <<supVars, loopVars, isr>>

Op_start_until(direction, objective, velocity) ==
    /\ motor' = motores_start_until(motor, direction, objective, velocity).m
    /\ ret' = motores_start_until(motor, direction, objective, velocity).ret
    /\ mc' = start_until(mc, direction, objective, velocity).m
    /\ retc' = start_until(mc, direction, objective, velocity).ret
    /\ op' = "start_until"
    /\ UNCHANGED <<supVars, loopVars, isr>>

Op_stop_rotation ==
    /\ motor' = motores_stop_rotation(motor)
    /\ mc' = stop_rotation(mc)
    /\ ret' = FALSE
    /\ retc' = FALSE
    /\ op' = "stop_rotation"
    /\ UNCHANGED <<supVars, loopVars, isr>>

\* Callers pass positions inside the limits.
Op_set_position(position) ==
    /\ motor' = motores_set_position(motor, position)
    /\ mc' = set_position(mc, position)
    /\ ret' = FALSE
    /\ retc' = FALSE
    /\ op' = "set_position"
    /\ UNCHANGED <<supVars, loopVars, isr>>

NextMotor ==
    \/ \E A \in BOOLEAN, B \in BOOLEAN : Op_step(A, B)
    \/ \E d \in BOOLEAN, v \in Velocidades : Op_start_rotation(d, v)
    \/ \E d \in BOOLEAN, o \in 0..MaxPos, v \in Velocidades : Op_start_until(d, o, v)
    \/ Op_stop_rotation
    \/ \E p \in motor.min_pos..motor.max_pos : Op_set_position(p)

SpecMotor == Init /\ [][NextMotor]_vars

(***************************************************************************)
(* Operations of the supervisory state machine                             *)
(***************************************************************************)
Op_ComprobacionSeguridad(l) ==
    /\ estado_protesis' = ComprobacionSeguridad(estado_protesis, l).s
    /\ ret' = ComprobacionSeguridad(estado_protesis, l).ret
    /\ op' = "ComprobacionSeguridad"
    /\ UNCHANGED <<motor, mc, retc, loopVars, isr>>

Op_ActivarSeguridad(causa) ==
    /\ estado_protesis' = ActivarSeguridad(estado_protesis, causa)
    /\ ret' = FALSE
    /\ op' = "ActivarSeguridad"
    /\ UNCHANGED <<motor, mc, retc, loopVars, isr>>

\* Latched, the function ends without returning a value: the caller reads
\* whatever the build leaves there (r).
Op_Comprobacion_Problema(l, r) ==
    /\ estado_protesis' = Comprobacion_Problema(estado_protesis, l)
    /\ ret' = IF ~estado_protesis.en_seguridad THEN TRUE ELSE r
    /\ op' = "Comprobacion_Problema"
    /\ UNCHANGED <<motor, mc, retc, loopVars, isr>>

Op_cambiarEstado(nuevo_estado) ==
    /\ estado_protesis' = cambiarEstado(estado_protesis, nuevo_estado)
    /\ ret' = FALSE
    /\ op' = "cambiarEstado"
    /\ UNCHANGED <<motor, mc, retc, loopVars, isr>>

Op_cambiarFase(nueva_fase) ==
    /\ estado_protesis' = cambiarFase(estado_protesis, nueva_fase)
    /\ ret' = FALSE
    /\ op' = "cambiarFase"
    /\ UNCHANGED <<motor, mc, retc, loopVars, isr>>

NextSup ==
    \/ \E l \in Lecturas : Op_ComprobacionSeguridad(l)
    \/ \E causa \in Causa_Seguridad : Op_ActivarSeguridad(causa)
    \/ \E l \in Lecturas, r \in BOOLEAN : Op_Comprobacion_Problema(l, r)
    \/ \E e \in Estado_Protesis : Op_cambiarEstado(e)
    \/ \E f \in Fase_Estado : Op_cambiarFase(f)

SpecSup == InitSup /\ [][NextSup]_vars


(***************************************************************************)
(* The control loop                                                        *)
(***************************************************************************)
Op_activacionMotores ==
    LET r == activacionMotores(motor, estado_protesis, presion, tiempo)
    IN  /\ motor' = r.m
        /\ estado_protesis' = r.s
        /\ presion' = r.p
        /\ velocidad_motor_procesada' = r.velocidad
        /\ motorAbrir' = r.abrir
        /\ motorCerrar' = r.cerrar
        /\ motorArrived' = r.arrived
        /\ posicionMotor' = r.posicionMotor
        /\ ret' = FALSE
        /\ op' = "activacionMotores"
        /\ UNCHANGED <<mc, retc, tiempo, isr, llamada>>

\* The readings and causes of the runs that include the control loop.
LecturasLazo ==
    {l \in Lecturas : Fallos(l) \subseteq {causa_sobrecalentameinto}}
CausasLazo == {causa_sobrecalentameinto, causa_fuerza_excesiva}

NextLazo ==
    \/ Op_activacionMotores
    \/ \E l \in LecturasLazo : Op_ComprobacionSeguridad(l)
    \/ \E causa \in CausasLazo : Op_ActivarSeguridad(causa)
    \/ \E l \in LecturasLazo, r \in BOOLEAN : Op_Comprobacion_Problema(l, r)
    \/ \E e \in Estado_Protesis : Op_cambiarEstado(e)
    \/ \E f \in Fase_Estado : Op_cambiarFase(f)

SpecLazo == InitPrograma /\ [][NextLazo]_vars

\* The supervisor driven by a caller that keeps issuing the re-check and the
\* phase advance: neither request is postponed for ever.
NextRecuperacion ==
    \/ \E l \in LecturasLazo : Op_ComprobacionSeguridad(l)
    \/ \E causa \in CausasLazo : Op_ActivarSeguridad(causa)
    \/ \E l \in LecturasLazo, r \in BOOLEAN : Op_Comprobacion_Problema(l, r)
    \/ \E e \in Estado_Protesis : Op_cambiarEstado(e)
    \/ \E f \in Fase_Estado : Op_cambiarFase(f)

SpecRecuperacion ==
    /\ InitSup
    /\ [][NextRecuperacion]_vars
    /\ WF_vars(\E l \in LecturasLazo, r \in BOOLEAN : Op_Comprobacion_Problema(l, r))
    /\ WF_vars(\E f \in Fase_Estado : Op_cambiarFase(f))

(***************************************************************************)
(* The encoder interrupt (updateMotores -> motores_step) running beside    *)
(* the control loop: motores_step in its accesses to the shared struct.    *)
(***************************************************************************)
\* The pins are read and A is compared with last_state.
ISR_entrada(A, B) ==
    /\ isr.pc = "reposo"
    /\ isr' = [pc |-> IF A # motor.last_state THEN "limite" ELSE "until",
               A |-> A, B |-> B, leido |-> 0]
    /\ UNCHANGED <<motorVars, supVars, loopVars, op>>

\* The bound check: position is read and compared with min_pos or max_pos.
ISR_limite ==
    /\ isr.pc = "limite"
    /\ isr' = [isr EXCEPT
                 !.pc = IF isr.B = isr.A
                        THEN IF motor.position > motor.min_pos THEN "contar" ELSE "until"
                        ELSE IF motor.position < motor.max_pos THEN "contar" ELSE "until",
                 !.leido = motor.position]
    /\ UNCHANGED <<motorVars, supVars, loopVars, op>>

\* position-- or position++ on the value the bound check read.
ISR_contar_leido ==
    /\ isr.pc = "contar"
    /\ motor' = [motor EXCEPT !.position = IF isr.B = isr.A
                                           THEN Dec16(isr.leido)
                                           ELSE Inc16(isr.leido)]
    /\ isr' = [isr EXCEPT !.pc = "until"]
    /\ UNCHANGED <<mc, ret, retc, supVars, loopVars, op>>

\* position-- or position++ on position read again.
ISR_contar_releido ==
    /\ isr.pc = "contar"
    /\ motor' = [motor EXCEPT !.position = IF isr.B = isr.A
                                           THEN Dec16(motor.position)
                                           ELSE Inc16(motor.position)]
    /\ isr' = [isr EXCEPT !.pc = "until"]
    /\ UNCHANGED <<mc, ret, retc, supVars, loopVars, op>>

\* The until check, then last_state = A.
ISR_until ==
    /\ isr.pc = "until"
    /\ motor' = [motores_step_until(motor) EXCEPT !.last_state = isr.A]
    /\ isr' = isr_reposo
    /\ UNCHANGED <<mc, ret, retc, supVars, loopVars, op>>

\* The runs are followed up to the first position outside the limits.
EnRango(m) == (m.min_pos <= m.position) /\ (m.position <= m.max_pos)

\* The control loop runs the calibration of the motor limits: the mode is
\* changed to ESTADO_CALIBRADO_MOTORES and the phases are requested there.
NextISR ==
    \/ \E A \in BOOLEAN, B \in BOOLEAN : EnRango(motor) /\ ISR_entrada(A, B)
    \/ ISR_limite
    \/ ISR_contar_leido
    \/ ISR_contar_releido
    \/ ISR_until
    \/ EnRango(motor) /\ Op_activacionMotores
    \/ EnRango(motor) /\ Op_cambiarEstado(ESTADO_CALIBRADO_MOTORES)
    \/ \E f \in Fase_Estado :
          /\ EnRango(motor)
          /\ estado_protesis.estado_actual = ESTADO_CALIBRADO_MOTORES
          /\ Op_cambiarFase(f)

SpecISR == InitPrograma /\ [][NextISR]_vars

(***************************************************************************)
(* The condition monitor on its own: readings are stored and evaluated.    *)
(***************************************************************************)
Op_actualizacion(l) ==
    /\ estado_protesis' =
          [estado_protesis EXCEPT !.condiciones = actualizacion(@, l)]
    /\ op' = "actualizacion"
    /\ UNCHANGED <<motorVars, loopVars, isr>>

Op_actualizacion_parametros(l) ==
    /\ estado_protesis' =
          [estado_protesis EXCEPT !.condiciones = actualizacion_parametros(@, l)]
    /\ op' = "actualizacion_parametros"
    /\ UNCHANGED <<motorVars, loopVars, isr>>

\* Verificar_Causas assigns no field; the cause returned is kept in ret.
Op_Verificar_Causas ==
    /\ ret' = Verificar_Causas(estado_protesis.condiciones)
    /\ op' = "Verificar_Causas"
    /\ UNCHANGED <<motor, mc, retc, supVars, loopVars, isr>>

NextMonitor ==
    \/ \E l \in LecturasTodas : Op_actualizacion(l)
    \/ \E l \in LecturasTodas : Op_actualizacion_parametros(l)
    \/ Op_Verificar_Causas

SpecMonitor == InitSup /\ [][NextMonitor]_vars

(***************************************************************************)
(* The stall detector polled while the clock runs and the encoder moves    *)
(* the position.                                                           *)
(***************************************************************************)
\* The clock advances by a second, or by the period of tiempoPresion; it is
\* followed for MaxEspera seconds after the start and after one period.
Op_reloj(d) ==
    /\ (tiempo + d) % PeriodoUlong <= MaxEspera
    /\ tiempo + d <= PeriodoUlong + MaxEspera
    /\ (tiempo + d) % PeriodoUlong # 0
    /\ tiempo' = tiempo + d
    /\ op' = "reloj"
    /\ UNCHANGED <<motorVars, supVars, velocidad_motor_procesada, motorAbrir,
                   motorCerrar, motorArrived, posicionMotor, presion, isr,
                   llamada>>

Op_checkMotorPressure ==
    LET r == checkMotorPressure(presion, motores_read_position(motor), tiempo)
    IN  /\ presion' = r.p
        /\ ret' = r.ret
        /\ op' = "checkMotorPressure"
        /\ UNCHANGED <<motor, mc, retc, supVars, velocidad_motor_procesada,
                       motorAbrir, motorCerrar, motorArrived, posicionMotor,
                       tiempo, isr, llamada>>

NextPresion ==
    \/ \E d \in {1, PeriodoUlong} : Op_reloj(d)
    \/ Op_checkMotorPressure
    \/ \E A \in BOOLEAN, B \in BOOLEAN : Op_step(A, B)

SpecPresion == InitPrograma /\ [][NextPresion]_vars

(***************************************************************************)
(* motores_start_until in its accesses to the shared struct and to the     *)
(* outputs, with the encoder interrupt (updateMotores -> motores_step)     *)
(* pre-empting the call between any two of them.                           *)
(***************************************************************************)
\* The variables of the control loop that a rotate call leaves alone.
tickVars ==
    <<velocidad_motor_procesada, motorAbrir, motorCerrar, motorArrived,
      posicionMotor, presion, tiempo>>

\* The direction still has travel from the position read.
HayRecorrido(direction, position, limite) ==
    IF direction = ABRIR THEN position > limite ELSE position < limite

\* m->objective = objective; m->until = true.
Llamada_start_until(direction, objective, velocity) ==
    /\ llamada.pc = "reposo"
    /\ motor' = [motor EXCEPT !.objective = objective, !.until = TRUE]
    /\ llamada' = [llamada EXCEPT !.pc = "objetivo", !.direction = direction,
                                  !.velocity = velocity]
    /\ UNCHANGED <<mc, ret, retc, supVars, tickVars, isr, op>>

\* The position is compared with the objective: on the objective the target
\* is disarmed, the duty is written 0 and the call returns true.
Llamada_objetivo ==
    /\ llamada.pc = "objetivo"
    /\ IF HayRecorrido(llamada.direction, motor.position, motor.objective)
       THEN /\ llamada' = [llamada EXCEPT !.pc = "limite"]
            /\ UNCHANGED <<motor, ret, op>>
       ELSE /\ motor' = [motor EXCEPT !.until = FALSE, !.duty = 0]
            /\ llamada' = [llamada EXCEPT !.pc = "reposo"]
            /\ ret' = TRUE
            /\ op' = "start_until"
    /\ UNCHANGED <<mc, retc, supVars, tickVars, isr>>

\* motores_start_rotation compares the position with the limit: at the limit
\* the duty is written 0 and the call returns true.
Llamada_limite ==
    /\ llamada.pc = "limite"
    /\ IF HayRecorrido(llamada.direction, motor.position,
                       IF llamada.direction = ABRIR
                       THEN motor.min_pos ELSE motor.max_pos)
       THEN /\ llamada' = [llamada EXCEPT !.pc = "duty",
                                          !.visto = motor.position]
            /\ UNCHANGED <<motor, ret, op>>
       ELSE /\ motor' = [motor EXCEPT !.duty = 0]
            /\ llamada' = [llamada EXCEPT !.pc = "reposo"]
            /\ ret' = TRUE
            /\ op' = "start_until"
    /\ UNCHANGED <<mc, retc, supVars, tickVars, isr>>

\* ledc_set_duty and ledc_update_duty with the velocity.
Llamada_duty ==
    /\ llamada.pc = "duty"
    /\ motor' = [motor EXCEPT !.duty = llamada.velocity]
    /\ llamada' = [llamada EXCEPT !.pc = "ph", !.emitida = llamada.visto]
    /\ UNCHANGED <<mc, ret, retc, supVars, tickVars, isr, op>>

\* gpio_set_level(ph, direction); the call returns false.
Llamada_ph ==
    /\ llamada.pc = "ph"
    /\ motor' = [motor EXCEPT !.ph = llamada.direction]
    /\ llamada' = [llamada EXCEPT !.pc = "reposo", !.escrito = TRUE]
    /\ ret' = FALSE
    /\ op' = "start_until"
    /\ UNCHANGED <<mc, retc, supVars, tickVars, isr>>

\* The encoder interrupt runs motores_step to its end wherever the call is.
Op_updateMotores(A, B) ==
    /\ motor' = motores_step(motor, A, B)
    /\ UNCHANGED <<mc, ret, retc, supVars, loopVars, isr, op>>

NextCarrera ==
    \/ \E direction \in BOOLEAN, objective \in 0..MaxPos,
          velocity \in Velocidades :
          Llamada_start_until(direction, objective, velocity)
    \/ Llamada_objetivo
    \/ Llamada_limite
    \/ Llamada_duty
    \/ Llamada_ph
    \/ \E A \in BOOLEAN, B \in BOOLEAN : Op_updateMotores(A, B)

SpecCarrera == InitPrograma /\ [][NextCarrera]_vars

(***************************************************************************)
(* The control loop in its phases of Normal mode while the clock runs and  *)
(* the encoder moves the position: closing episodes separated by pauses.   *)
(***************************************************************************)
NextCierre ==
    \/ Op_activacionMotores
    \/ \E f \in Fase_Estado : Op_cambiarFase(f)
    \/ Op_reloj(1)
    \/ \E A \in BOOLEAN, B \in BOOLEAN : Op_updateMotores(A, B)

SpecCierre == InitPrograma /\ [][NextCierre]_vars

(***************************************************************************)
(* Properties                                                              *)
(***************************************************************************)
\* The position of the travel limit in a direction.
EnLimite(m, direction) ==
    IF direction = ABRIR THEN m.position = m.min_pos ELSE m.position = m.max_pos

\* C1: after any sequence of decode steps and rotate, rotate_until, stop and
\* in-range set_position calls on a controller initialised with
\* min_pos <= max_pos, Position is inside [min_pos, max_pos]. Fails in the
\* initial state of a controller with min_pos > 0: the position starts at 0.
C1_PosicionEnLimites ==
    /\ motor.min_pos <= motor.max_pos
    /\ motor.min_pos <= motor.position /\ motor.position <= motor.max_pos
    /\ mc.min_pos <= mc.position /\ mc.position <= mc.max_pos

\* C2: with the encoder interrupt running beside the control loop, the bound
\* check and the +/-1 update of the interrupt act as one step: in no
\* interleaving is Position outside [min_pos, max_pos] or wrapped. Fails when
\* set_position(0) of the calibration lands between the check and the update.
C2_PasoIndivisible ==
    isr.pc \in {"reposo", "limite", "contar", "until"} => EnRango(motor)

\* C3: rotate(direction, v) called with Position at the travel limit of that
\* direction returns at-limit = true and leaves the duty at 0, for every
\* speed and on a repeated call as well; whenever a rotate call has returned
\* true the duty is 0.
C3_RotarEnLimite ==
    /\ \A d \in BOOLEAN, v \in Velocidades, w \in Velocidades :
          /\ EnLimite(motor, d) =>
                LET r1 == motores_start_rotation(motor, d, v)
                    r2 == motores_start_rotation(r1.m, d, w)
                IN  /\ r1.ret /\ r1.m.duty = 0
                    /\ r2.ret /\ r2.m.duty = 0
          /\ EnLimite(mc, d) =>
                LET r1 == start_rotation(mc, d, v)
                    r2 == start_rotation(r1.m, d, w)
                IN  /\ r1.ret /\ r1.m.duty = 0
                    /\ r2.ret /\ r2.m.duty = 0
    /\ (op = "start_rotation" /\ ret) => motor.duty = 0
    /\ (op = "start_rotation" /\ retc) => mc.duty = 0

\* C3 witness: a rotate Close call has returned at-limit at max_pos.
C3_Testigo ==
    /\ op = "start_rotation"
    /\ ret /\ retc
    /\ motor.min_pos < motor.max_pos
    /\ motor.position = motor.max_pos
    /\ motor.duty = 0

\* Latched with the mode at Safety.
EnSeguridad(s) == s.en_seguridad /\ s.estado_actual = ESTADO_SEGURIDAD

C5_CambioPreemptado ==
    \A e \in Estado_Protesis \ {ESTADO_SEGURIDAD} :
        (\/ Verificar_Causas(estado_protesis.condiciones) # causas_ninguna
         \/ estado_protesis.en_seguridad)
        => LET t == cambiarEstado(estado_protesis, e)
           IN  /\ t.estado_actual = ESTADO_SEGURIDAD
               /\ t.error_actual # causas_ninguna
               /\ t.en_seguridad
               /\ ~t.problema_resuelto

\* C6: ActivarSeguridad, from any mode and phase, leaves the mode at Safety
\* and the phase at FASE_PASO_1 when the cause is excessive force and at
\* FASE_PASO_2 for every other cause.
C6_FaseDeEntrada ==
    /\ \A causa \in Causa_Seguridad :
          LET t == ActivarSeguridad(estado_protesis, causa)
          IN  /\ t.estado_actual = ESTADO_SEGURIDAD
              /\ t.en_seguridad
              /\ t.error_actual = causa
              /\ t.fase_actual = IF causa = causa_fuerza_excesiva
                                 THEN FASE_PASO_1
                                 ELSE FASE_PASO_2
    /\ op = "ActivarSeguridad" =>
          estado_protesis.fase_actual =
             IF estado_protesis.error_actual = causa_fuerza_excesiva
             THEN FASE_PASO_1
             ELSE FASE_PASO_2

\* C6 witness: safety has been entered for excessive force.
C6_Testigo ==
    /\ op = "ActivarSeguridad"
    /\ estado_protesis.error_actual = causa_fuerza_excesiva
    /\ estado_protesis.fase_actual = FASE_PASO_1
    /\ estado_protesis.estado_actual = ESTADO_SEGURIDAD

\* C7: while the machine stays latched in Safety the phase either keeps its
\* value or moves one position along FASE_PASO_1 -> FASE_PASO_2 ->
\* FASE_CAMBIO_ESTADO in a cambiarFase step. Fails: ActivarSeguridad on a
\* machine already in Safety sets the phase again.
C7_FaseMonotona ==
    [][(EnSeguridad(estado_protesis) /\ EnSeguridad(estado_protesis'))
       => \/ estado_protesis'.fase_actual = estado_protesis.fase_actual
          \/ /\ op' = "cambiarFase"
             /\ \/ /\ estado_protesis.fase_actual = FASE_PASO_1
                   /\ estado_protesis'.fase_actual = FASE_PASO_2
                \/ /\ estado_protesis.fase_actual = FASE_PASO_2
                   /\ estado_protesis'.fase_actual = FASE_CAMBIO_ESTADO]_vars

\* C8: cambiarFase at (Safety, FASE_CAMBIO_ESTADO) with problema_resuelto
\* true clears en_seguridad, sets error_actual to causas_ninguna and leaves
\* the machine in (Normal, FASE_PAUSA). Fails: the phase and the cause keep
\* their values.
C8_SalidaLimpia ==
    \A f \in Fase_Estado :
        (/\ EnSeguridad(estado_protesis)
         /\ estado_protesis.fase_actual = FASE_CAMBIO_ESTADO
         /\ estado_protesis.problema_resuelto)
        => LET t == cambiarFase(estado_protesis, f)
           IN  /\ ~t.en_seguridad
               /\ t.error_actual = causas_ninguna
               /\ t.estado_actual = ESTADO_NORMAL
               /\ t.fase_actual = FASE_PAUSA

C10_Recuperacion ==
    []((/\ estado_protesis.en_seguridad
        /\ [](/\ Medida_Resuelta(estado_protesis.error_actual,
                                 estado_protesis.condiciones)
              /\ op \in {"Comprobacion_Problema", "cambiarFase"}))
       => <>(/\ estado_protesis.estado_actual = ESTADO_NORMAL
             /\ ~estado_protesis.en_seguridad))

\* Position has not reached the objective in the direction of travel.
NoLlegado(m, direction, objective) ==
    IF direction = ABRIR THEN m.position > objective ELSE m.position < objective

\* No travel is left in the direction: rotate reports not-at-limit only with
\* the position strictly inside the bound of the direction.
SinRecorrido(m, direction) ==
    IF direction = ABRIR THEN ~(m.position > m.min_pos)
                         ELSE ~(m.position < m.max_pos)

\* C11: rotate_until returns false exactly when Position has not reached the
\* objective in the requested direction and is not at the travel limit of
\* that direction, and true otherwise; with min_pos = 0 and max_pos the
\* maximum, rotate_until(Close, max_pos, 120) returns false at every
\* Position below max_pos and true at max_pos.
C11_RetornoHasta ==
    /\ \A d \in BOOLEAN, o \in 0..MaxPos, v \in Velocidades :
          /\ motores_start_until(motor, d, o, v).ret
                = ~(NoLlegado(motor, d, o) /\ ~SinRecorrido(motor, d))
          /\ start_until(mc, d, o, v).ret
                = ~(NoLlegado(mc, d, o) /\ ~SinRecorrido(mc, d))
    /\ (motor.min_pos = 0 /\ motor.max_pos = MaxPos) =>
          /\ motores_start_until(motor, CERRAR, MaxPos, 120).ret
                = (motor.position = MaxPos)
          /\ start_until(mc, CERRAR, MaxPos, 120).ret = (mc.position = MaxPos)
    /\ (op = "start_until" /\ ~ret) => (motor.until /\ motor.duty \in Velocidades)

\* C11 witness: rotate_until(Close, max_pos, 120) has returned false below
\* max_pos.
C11_Testigo ==
    /\ op = "start_until"
    /\ ~ret /\ ~retc
    /\ motor.min_pos = 0 /\ motor.max_pos = MaxPos
    /\ motor.until /\ motor.objective = MaxPos
    /\ motor.position < MaxPos
    /\ motor.ph = CERRAR /\ motor.duty = 120

\* C12: a second rotate_until with the same arguments and no Position change
\* in between returns the same value and leaves the same target flag,
\* objective, duty and direction as the first; with Position at the objective
\* neither call leaves a non-zero duty.
C12_HastaIdempotente ==
    \A d \in BOOLEAN, o \in 0..MaxPos, v \in Velocidades :
        /\ LET r1 == motores_start_until(motor, d, o, v)
               r2 == motores_start_until(r1.m, d, o, v)
           IN  /\ r2 = r1
               /\ motor.position = o => (r1.m.duty = 0 /\ r2.m.duty = 0)
        /\ LET r1 == start_until(mc, d, o, v)
               r2 == start_until(r1.m, d, o, v)
           IN  /\ r2 = r1
               /\ mc.position = o => (r1.m.duty = 0 /\ r2.m.duty = 0)

\* C12 witness: a rotate_until call has armed a target away from Position,
\* and the same call made again leaves the controller as it is.
C12_Testigo ==
    /\ op = "start_until"
    /\ ~ret /\ ~retc
    /\ mc.until /\ mc.duty = 120 /\ mc.objective # mc.position
    /\ start_until(mc, mc.ph, mc.objective, 120).m = mc
    /\ motores_start_until(motor, motor.ph, motor.objective, 120).m = motor

\* C13: when, after the position update of a decode step, the target is
\* armed and Position equals the objective, the step returns with the duty
\* at 0 and the target disarmed; no step returns with an armed target at its
\* objective.
C13_ParadaEnObjetivo ==
    /\ \A A \in BOOLEAN, B \in BOOLEAN :
          /\ LET c == motores_step_contar(motor, A, B)
                 r == motores_step(motor, A, B)
             IN  (c.until /\ c.position = c.objective)
                    => (r.duty = 0 /\ ~r.until /\ r.position = c.position)
          /\ LET r == step(mc, A, B)
             IN  (mc.until /\ r.position = mc.objective)
                    => (r.duty = 0 /\ ~r.until)
    /\ op = "step" =>
          /\ ~(motor.until /\ motor.position = motor.objective)
          /\ ~(mc.until /\ mc.position = mc.objective)

\* C13 witness: a target is armed with the motor driven, and one decode step
\* moves Position onto the objective and returns with the duty at 0.
C13_Testigo ==
    /\ motor.until /\ motor.duty = 120
    /\ \E A \in BOOLEAN, B \in BOOLEAN :
          LET r == motores_step(motor, A, B)
          IN  /\ r.position # motor.position
              /\ r.position = motor.objective
              /\ r.duty = 0 /\ ~r.until

\* C14: stop, in any state, leaves the target disarmed and the duty at 0,
\* keeps Position, the objective and the limits, and a second stop changes
\* nothing more.
C14_ParadaSegura ==
    /\ LET t == motores_stop_rotation(motor)
       IN  /\ ~t.until /\ t.duty = 0
           /\ t = [motor EXCEPT !.until = FALSE, !.duty = 0]
           /\ motores_stop_rotation(t) = t
    /\ LET t == stop_rotation(mc)
       IN  /\ ~t.until /\ t.duty = 0
           /\ t = [mc EXCEPT !.until = FALSE, !.duty = 0]
           /\ stop_rotation(t) = t
    /\ op = "stop_rotation" =>
          (~motor.until /\ motor.duty = 0 /\ ~mc.until /\ mc.duty = 0)

\* C14 witness: stop has been called on a controller that had a target and
\* is away from its initial position.
C14_Testigo ==
    /\ op = "stop_rotation"
    /\ ~motor.until /\ motor.duty = 0
    /\ motor.objective # 0 /\ motor.position # 0
    /\ motor.position # motor.objective

\* The change of Position the quadrature rule gives for readings (A, B).
CambioEsperado(m, A, B) ==
    IF A = m.last_state THEN 0
    ELSE IF A = B THEN (IF m.position > m.min_pos THEN -1 ELSE 0)
    ELSE (IF m.position < m.max_pos THEN 1 ELSE 0)

\* C15: for every stored last state and every readings (A, B) with A
\* different from it, the decode step changes Position by -1 when A = B and
\* Position > min_pos, by +1 when A # B and Position < max_pos, and by 0
\* otherwise; after every step the stored last state is A.
C15_ReglaCuadratura ==
    \A A \in BOOLEAN, B \in BOOLEAN :
        /\ motores_step(motor, A, B).position
              = motor.position + CambioEsperado(motor, A, B)
        /\ motores_step(motor, A, B).last_state = A
        /\ step(mc, A, B).position = mc.position + CambioEsperado(mc, A, B)
        /\ step(mc, A, B).last_state = A

\* C15 witness: a controller strictly inside its limits, reached by a decode
\* step, on which an edge with A # B counts up and one with A = B counts down.
C15_Testigo ==
    /\ op = "step"
    /\ motor.min_pos < motor.position /\ motor.position < motor.max_pos
    /\ motores_step(motor, ~motor.last_state, motor.last_state).position
          = motor.position + 1
    /\ motores_step(motor, ~motor.last_state, ~motor.last_state).position
          = motor.position - 1

\* C16: a decode step whose channel A reading equals the stored last state
\* leaves Position, the target flag, the objective and the duty as they
\* were. Fails: the until test runs on every step, whether A changed or not.
C16_PasoSinFlanco ==
    \A B \in BOOLEAN :
        /\ LET r == motores_step(motor, motor.last_state, B)
           IN  /\ r.position = motor.position /\ r.until = motor.until
               /\ r.objective = motor.objective /\ r.duty = motor.duty
        /\ LET r == step(mc, mc.last_state, B)
           IN  /\ r.position = mc.position /\ r.until = mc.until
               /\ r.objective = mc.objective /\ r.duty = mc.duty

\* The step sees a changed channel A and Position is at the bound in the
\* direction of the edge.
FlancoEnLimite(m, A, B) ==
    /\ A # m.last_state
    /\ IF A = B THEN m.position <= m.min_pos ELSE m.position >= m.max_pos

\* C17: a decode step that sees a changed channel A with Position at the
\* bound in that direction leaves the duty at 0 and the target disarmed.
\* Fails for the C controller: its step does nothing at a bound.
C17_ParadaEnLimite ==
    \A A \in BOOLEAN, B \in BOOLEAN :
        /\ FlancoEnLimite(motor, A, B) =>
              LET r == motores_step(motor, A, B) IN r.duty = 0 /\ ~r.until
        /\ FlancoEnLimite(mc, A, B) =>
              LET r == step(mc, A, B) IN r.duty = 0 /\ ~r.until

\* C18: after a rotate or rotate_until call that reports at-limit the target
\* is disarmed. Fails for the C controller: at the limit start_rotation
\* writes the duty only.
C18_ObjetivoBorradoEnLimite ==
    /\ \A d \in BOOLEAN, v \in Velocidades :
          /\ motores_start_rotation(motor, d, v).ret
                => ~motores_start_rotation(motor, d, v).m.until
          /\ start_rotation(mc, d, v).ret => ~start_rotation(mc, d, v).m.until
    /\ \A d \in BOOLEAN, o \in 0..MaxPos, v \in Velocidades :
          /\ motores_start_until(motor, d, o, v).ret
                => ~motores_start_until(motor, d, o, v).m.until
          /\ start_until(mc, d, o, v).ret => ~start_until(mc, d, o, v).m.until

\* The causes in the order of precedence.
Orden ==
    <<causa_perdida_sensores, causa_error_encoder, causa_sobrecorriente,
      causa_sobrecalentameinto, causa_velocidad_excesiva, causa_fuerza_excesiva>>

\* The cause matches the stored readings: a boolean is false, or a reading
\* is strictly above its threshold.
Coincide(causa, c) ==
    CASE causa = causa_perdida_sensores -> c.senal_sensores = FALSE
      [] causa = causa_error_encoder -> c.posicion = FALSE
      [] causa = causa_sobrecorriente -> c.corriente_motores > c.umbral_corriente
      [] causa = causa_sobrecalentameinto -> c.temperatura > c.umbral_temperatura
      [] causa = causa_velocidad_excesiva -> c.velocidad > c.umbral_velocidad
      [] causa = causa_fuerza_excesiva -> c.fuerza > c.umbral_fuerza

\* The first cause of Orden that matches, causas_ninguna when none does.
PrimeraCausa(c) ==
    LET S == {i \in 1..Len(Orden) : Coincide(Orden[i], c)}
    IN  IF S = {} THEN causas_ninguna
        ELSE Orden[CHOOSE i \in S : \A j \in S : i <= j]

\* The readings of the scenario: the current at x, the others nominal.
LecturaNominal(x) ==
    [corriente |-> x, temperatura |-> 50, velocidad |-> UMBRAL_VELOCIDAD_DEFAULT,
     fuerza |-> UMBRAL_FUERZA_DEFAULT, senal |-> TRUE, posicion |-> TRUE]

\* C19: for every stored readings and thresholds Verificar_Causas returns the
\* first matching cause in the order sensor loss, encoder fault, overcurrent,
\* overtemperature, excessive speed, excessive force, and causas_ninguna when
\* none matches, an analog cause matching only strictly above its threshold;
\* current 3 against threshold 2 gives overcurrent and a later current 1
\* gives causas_ninguna.
C19_OrdenDeCausas ==
    /\ \A u \in UmbralesPosibles :
          LET c == ConUmbrales(estado_protesis.condiciones, u)
          IN  Verificar_Causas(c) = PrimeraCausa(c)
    /\ op = "Verificar_Causas" => ret = PrimeraCausa(estado_protesis.condiciones)
    /\ LET c3 == actualizacion(estado_protesis.condiciones, LecturaNominal(3))
           c1 == actualizacion(c3, LecturaNominal(1))
       IN  /\ Verificar_Causas(c3) = causa_sobrecorriente
           /\ Verificar_Causas(c1) = causas_ninguna

\* C19 witness: Verificar_Causas has returned overcurrent with the
\* temperature and the force beyond their thresholds as well.
C19_Testigo ==
    /\ op = "Verificar_Causas"
    /\ ret = causa_sobrecorriente
    /\ estado_protesis.condiciones.corriente_motores = 3
    /\ estado_protesis.condiciones.temperatura = 70
    /\ estado_protesis.condiciones.fuerza = UMBRAL_FUERZA_DEFAULT + 1
    /\ estado_protesis.condiciones.velocidad = UMBRAL_VELOCIDAD_DEFAULT

\* The six stored readings are the six values of l.
LecturasGuardadas(c, l) ==
    /\ c.corriente_motores = l.corriente /\ c.temperatura = l.temperatura
    /\ c.velocidad = l.velocidad /\ c.fuerza = l.fuerza
    /\ c.senal_sensores = l.senal /\ c.posicion = l.posicion

\* C20: update with six values overwrites the six stored readings with them,
\* so that the evaluation directly after it is the one of the new values,
\* and leaves the four thresholds as they were. Fails for the update that
\* takes the six values as parameters: it assigns the stored readings to its
\* parameters.
C20_ActualizacionGuarda ==
    \A l \in LecturasTodas :
        /\ LET c == actualizacion_parametros(estado_protesis.condiciones, l)
           IN  /\ LecturasGuardadas(c, l)
               /\ Verificar_Causas(c)
                     = PrimeraCausa(actualizacion(Condiciones_Seguridad, l))
               /\ ConUmbrales(c, estado_protesis.condiciones) = c
        /\ LET c == actualizacion(estado_protesis.condiciones, l)
           IN  /\ LecturasGuardadas(c, l)
               /\ ConUmbrales(c, estado_protesis.condiciones) = c

\* The measurement of the cause, as delivered in the readings l, is at or
\* below its threshold; for the two boolean causes the boolean is true.
ResueltaEnLectura(causa, l, c) ==
    CASE causa = causa_sobrecorriente -> ~(l.corriente > c.umbral_corriente)
      [] causa = causa_sobrecalentameinto -> ~(l.temperatura > c.umbral_temperatura)
      [] causa = causa_velocidad_excesiva -> ~(l.velocidad > c.umbral_velocidad)
      [] causa = causa_fuerza_excesiva -> ~(l.fuerza > c.umbral_fuerza)
      [] causa = causa_perdida_sensores -> l.senal = TRUE
      [] causa = causa_error_encoder -> l.posicion = TRUE

\* The six stored readings as a set of readings.
LecturaGuardada(c) ==
    [corriente |-> c.corriente_motores, temperatura |-> c.temperatura,
     velocidad |-> c.velocidad, fuerza |-> c.fuerza,
     senal |-> c.senal_sensores, posicion |-> c.posicion]

\* C21: on a latched machine with an active cause, Comprobacion_Problema
\* leaves problema_resuelto true exactly when the measurement of that cause
\* in the readings taken is at or below its threshold (the boolean true for
\* sensor loss and encoder fault), whatever the other five readings are.
C21_ReComprobacion ==
    /\ \A l \in LecturasTodas :
          (/\ estado_protesis.en_seguridad
           /\ estado_protesis.error_actual # causas_ninguna)
          => Comprobacion_Problema(estado_protesis, l).problema_resuelto
                = ResueltaEnLectura(estado_protesis.error_actual, l,
                                    estado_protesis.condiciones)
    /\ (/\ op = "Comprobacion_Problema"
        /\ estado_protesis.en_seguridad
        /\ estado_protesis.error_actual # causas_ninguna)
       => estado_protesis.problema_resuelto
             = ResueltaEnLectura(estado_protesis.error_actual,
                                 LecturaGuardada(estado_protesis.condiciones),
                                 estado_protesis.condiciones)

\* C21 witness: the re-check has found the speed, the active cause, equal to
\* its threshold while the temperature is beyond its own.
C21_Testigo ==
    /\ op = "Comprobacion_Problema"
    /\ estado_protesis.en_seguridad
    /\ estado_protesis.error_actual = causa_velocidad_excesiva
    /\ estado_protesis.condiciones.velocidad = UMBRAL_VELOCIDAD_DEFAULT
    /\ estado_protesis.condiciones.temperatura = 70
    /\ estado_protesis.problema_resuelto

\* C22: the machine is created in (Normal, FASE_PAUSA) with no active cause,
\* en_seguridad false and problema_resuelto true.
C22_EstadoInicial ==
    op = "init" =>
        /\ estado_protesis.estado_actual = ESTADO_NORMAL
        /\ estado_protesis.fase_actual = FASE_PAUSA
        /\ estado_protesis.error_actual = causas_ninguna
        /\ estado_protesis.en_seguridad = FALSE
        /\ estado_protesis.problema_resuelto = TRUE

\* C22 witness: the machine as constructed, before any operation.
C22_Testigo ==
    /\ op = "init"
    /\ estado_protesis.condiciones = Condiciones_Seguridad
    /\ Verificar_Causas(estado_protesis.condiciones) = causas_ninguna

\* C23: a change of mode requested while en_seguridad is false sets the mode
\* to the one requested and the phase to FASE_PAUSA whatever it was;
\* requested while en_seguridad is true it changes neither. Fails:
\* cambiarEstado of the safety machine leaves the phase as it was.
C23_CambioDeModo ==
    \A e \in Estado_Protesis :
        LET t == cambiarEstado(estado_protesis, e)
            u == maquina_cambiarEstado(estado_protesis, e)
        IN  IF ~estado_protesis.en_seguridad
            THEN /\ t.estado_actual = e /\ t.fase_actual = FASE_PAUSA
                 /\ u.estado_actual = e /\ u.fase_actual = FASE_PAUSA
            ELSE /\ t.estado_actual = estado_protesis.estado_actual
                 /\ t.fase_actual = estado_protesis.fase_actual

\* The phase after an advance in safety.
AvanceSeguridad(fase) ==
    CASE fase = FASE_PASO_1 -> FASE_PASO_2
      [] fase = FASE_PASO_2 -> FASE_CAMBIO_ESTADO
      [] OTHER -> fase

\* C24: cambiarFase requested while en_seguridad is false sets the phase to
\* the one requested and changes nothing else; requested while en_seguridad
\* is true the machine it leaves is the same for every requested phase, its
\* phase being the advance of the current one.
C24_CambioDeFase ==
    \A f \in Fase_Estado :
        LET t == cambiarFase(estado_protesis, f)
        IN  IF ~estado_protesis.en_seguridad
            THEN t = [estado_protesis EXCEPT !.fase_actual = f]
            ELSE /\ t.fase_actual = AvanceSeguridad(estado_protesis.fase_actual)
                 /\ \A g \in Fase_Estado : cambiarFase(estado_protesis, g) = t

\* C24 witness: a phase request made in safety for excessive force has
\* advanced the phase from FASE_PASO_1 to FASE_PASO_2.
C24_Testigo ==
    /\ op = "cambiarFase"
    /\ EnSeguridad(estado_protesis)
    /\ estado_protesis.error_actual = causa_fuerza_excesiva
    /\ estado_protesis.fase_actual = FASE_PASO_2

\* posicionActual is within the margin of the position the detector remembers.
EnMargen(p, posicionActual) ==
    /\ posicionActual + margenPresion >= p.posicionAnterior
    /\ posicionActual <= p.posicionAnterior + margenPresion

\* C25: a poll that starts the window (none running, or Position outside the
\* margin) is followed by false on every poll within the margin less than 3
\* seconds later and by true on the first one at or after 3 seconds; after a
\* true the next poll is false at any time and a fresh window of 3 seconds
\* is needed. Fails once the clock has passed the period of tiempoPresion:
\* the start of the window is stored truncated and the next poll within the
\* margin reports true at once.
C25_VentanaDeTresSegundos ==
    /\ \A pos1 \in 0..MaxPos, pos2 \in 0..MaxPos, pos3 \in 0..MaxPos :
          LET r1 == checkMotorPressure(presion, pos1, tiempo)
          IN  (presion.tiempoPresion = 0 \/ ~EnMargen(presion, pos1)) =>
                /\ ~r1.ret
                /\ \A dt \in 0..(TiempoEstable + 1) :
                      LET r2 == checkMotorPressure(r1.p, pos2, tiempo + dt)
                          r3 == checkMotorPressure(r2.p, pos3, tiempo + dt + 1)
                      IN  EnMargen(r1.p, pos2) =>
                             /\ r2.ret = (dt >= TiempoEstable)
                             /\ r2.ret => ~r3.ret
    /\ (op = "checkMotorPressure" /\ ret) => presion.tiempoPresion = 0

\* States the detector can be in when a tick starts: any remembered
\* position, no window or a window started at second 1.
EstadosPresion == [posicionAnterior : 0..MaxPos, tiempoPresion : {0, 1}]

\* C26: a control tick polls the detector exactly when Close is commanded
\* and the mode is Normal; on any other tick the remembered position and the
\* timer are left as they were and the arrived flag is the same whatever
\* the detector holds.
C26_DetectorSoloAlCerrar ==
    \A p \in EstadosPresion, t \in {tiempo, tiempo + TiempoEstable} :
        LET r == activacionMotores(motor, estado_protesis, p, t)
            r0 == activacionMotores(motor, estado_protesis,
                                    checkMotorPresion_inicial, t)
            sondeo == checkMotorPressure(p, motor.position, t)
        IN  IF r.cerrar /\ estado_protesis.estado_actual = ESTADO_NORMAL
            THEN /\ r.p = sondeo.p
                 /\ sondeo.ret => r.arrived
            ELSE /\ r.p = p
                 /\ r.arrived = r0.arrived

\* C26 witness: a tick has commanded Close in the motor calibration and the
\* detector is as initialised.
C26_Testigo ==
    /\ op = "activacionMotores"
    /\ motorCerrar
    /\ estado_protesis.estado_actual = ESTADO_CALIBRADO_MOTORES
    /\ presion = checkMotorPresion_inicial

\* C27: a control tick that finds the machine in the motor calibration at
\* FASE_4 sets the position to min_pos, publishes it, and leaves the machine
\* in (Normal, FASE_PAUSA).
C27_FinDeCalibrado ==
    (/\ estado_protesis.estado_actual = ESTADO_CALIBRADO_MOTORES
     /\ estado_protesis.fase_actual = FASE_4)
    => LET r == activacionMotores(motor, estado_protesis, presion, tiempo)
       IN  /\ r.m.position = motor.min_pos
           /\ r.posicionMotor = motor.min_pos
           /\ r.s.estado_actual = ESTADO_NORMAL
           /\ r.s.fase_actual = FASE_PAUSA

\* C27 witness: a tick that started in a calibration mode (it chose the
\* calibration speed) has left the machine in (Normal, FASE_PAUSA) with the
\* position at 0.
C27_Testigo ==
    /\ op = "activacionMotores"
    /\ velocidad_motor_procesada = VelocidadProcesada(VELOCIDAD_CALIBRADO)
    /\ estado_protesis.estado_actual = ESTADO_NORMAL
    /\ estado_protesis.fase_actual = FASE_PAUSA
    /\ motor.position = 0
    /\ posicionMotor = 0

\* C28: in every step that takes the mode from the motor calibration to
\* another mode the position is 0 after the step. Fails for a change of mode
\* requested before FASE_4: the ticks of the calibration have set the position
\* to the middle of the travel.
C28_SalidaDeCalibradoEnCero ==
    [][(/\ estado_protesis.estado_actual = ESTADO_CALIBRADO_MOTORES
        /\ estado_protesis'.estado_actual # ESTADO_CALIBRADO_MOTORES)
       => motor'.position = 0]_vars

\* C29: in Normal a control tick turns the phase into one command: FASE_PAUSA
\* stops the motor (duty 0, target disarmed, arrived false), FASE_PASO_1 is
\* start_until Open to min_pos, FASE_PASO_2 is start_until Close to max_pos;
\* Open and Close are never both commanded.
C29_UnaOrdenPorFase ==
    /\ ~(motorAbrir /\ motorCerrar)
    /\ estado_protesis.estado_actual = ESTADO_NORMAL =>
          LET r == activacionMotores(motor, estado_protesis, presion, tiempo)
              v == VelocidadProcesada(VELOCIDAD_MOTOR)
          IN  /\ ~(r.abrir /\ r.cerrar)
              /\ estado_protesis.fase_actual = FASE_PAUSA =>
                    /\ ~r.abrir /\ ~r.cerrar
                    /\ r.m.duty = 0 /\ ~r.m.until /\ ~r.arrived
                    /\ r.m.position = motor.position
              /\ estado_protesis.fase_actual = FASE_PASO_1 =>
                    /\ r.abrir /\ ~r.cerrar
                    /\ r.m = motores_start_until(motor, ABRIR, motor.min_pos, v).m
                    /\ r.m.objective = motor.min_pos
              /\ estado_protesis.fase_actual = FASE_PASO_2 =>
                    /\ r.cerrar /\ ~r.abrir
                    /\ r.m = motores_start_until(motor, CERRAR, motor.max_pos, v).m
                    /\ r.m.objective = motor.max_pos

\* C29 witness: a tick in (Normal, FASE_PASO_2) has commanded Close: the
\* target is armed at max_pos and the motor is driven in the closing
\* direction.
C29_Testigo ==
    /\ op = "activacionMotores"
    /\ estado_protesis.estado_actual = ESTADO_NORMAL
    /\ estado_protesis.fase_actual = FASE_PASO_2
    /\ motorCerrar /\ ~motorAbrir /\ ~motorArrived
    /\ motor.until /\ motor.objective = motor.max_pos
    /\ motor.ph = CERRAR
    /\ motor.duty = VelocidadProcesada(VELOCIDAD_MOTOR)

\* C30: driven with the same calls, arguments and channel readings, the C
\* struct controller and the C++ class have the same position, target flag,
\* objective, duty and direction and have returned the same value. Fails:
\* the class stops at a bound and disarms the target at a limit, the struct
\* does neither, and motores_init takes last_state from the dt pin.
C30_ControladoresEquivalentes ==
    /\ motor.position = mc.position
    /\ motor.until = mc.until
    /\ motor.objective = mc.objective
    /\ motor.duty = mc.duty
    /\ motor.ph = mc.ph
    /\ ret = retc

\* C31: every poll of the detector, the one that returns true included,
\* leaves the position it was called with as the remembered position.
\* Fails: the poll that returns true returns before the assignment.
C31_AnteriorActualizada ==
    /\ \A pos \in 0..MaxPos :
          checkMotorPressure(presion, pos, tiempo).p.posicionAnterior = pos
    /\ op = "checkMotorPressure" => presion.posicionAnterior = motor.position

\* The five fields of the supervisor state are the same in s and t.
MismoSupervisor(s, t) ==
    /\ t.estado_actual = s.estado_actual
    /\ t.fase_actual = s.fase_actual
    /\ t.error_actual = s.error_actual
    /\ t.en_seguridad = s.en_seguridad
    /\ t.problema_resuelto = s.problema_resuelto

\* C32: ActivarSeguridad called when ComprobacionSeguridad reports that all
\* is correct leaves mode, phase, cause, en_seguridad and problema_resuelto
\* as they were. Fails: the condition of ActivarSeguridad names the function
\* without calling it.
C32_ActivarSoloSiHaceFalta ==
    \A l \in Lecturas, causa \in Causa_Seguridad :
        LET c == ComprobacionSeguridad(estado_protesis, l)
        IN  ~c.ret => MismoSupervisor(c.s, ActivarSeguridad(c.s, causa))

\* C33: at (Safety, FASE_CAMBIO_ESTADO) a control tick drives the motor Open
\* toward min_pos while the position is above it, and cambiarFase takes the
\* machine to Normal only with the position at 0. Fails: the tick stops the
\* motor in that phase and cambiarFase does not read the position.
C33_SeguridadColocaEnCero ==
    (/\ estado_protesis.estado_actual = ESTADO_SEGURIDAD
     /\ estado_protesis.fase_actual = FASE_CAMBIO_ESTADO)
    => /\ motor.position > motor.min_pos =>
             LET r == activacionMotores(motor, estado_protesis, presion, tiempo)
             IN  r.abrir /\ r.m.duty > 0 /\ r.m.ph = ABRIR
       /\ \A f \in Fase_Estado :
             cambiarFase(estado_protesis, f).estado_actual = ESTADO_NORMAL
                => motor.position = 0

\* C34: en_seguridad is true exactly when the mode is Safety. Fails:
\* ComprobacionSeguridad sets en_seguridad and leaves the mode, and
\* cambiarEstado(ESTADO_SEGURIDAD) sets the mode and leaves en_seguridad.
C34_LatchIgualModo ==
    estado_protesis.en_seguridad
        <=> (estado_protesis.estado_actual = ESTADO_SEGURIDAD)

\* C35 as claimed: in every step that takes the machine, latched on a cause,
\* out of safety, Verificar_Causas over the stored readings gives
\* causas_ninguna. Fails when a second quantity is beyond its threshold: the
\* re-check reads the active cause alone.
C35_SalidaSinCausa ==
    [][(/\ EnSeguridad(estado_protesis)
        /\ estado_protesis.error_actual # causas_ninguna
        /\ ~estado_protesis'.en_seguridad)
       => Verificar_Causas(estado_protesis'.condiciones) = causas_ninguna]_vars

\* C35 amended: in every step that takes the machine out of safety the mode
\* becomes Normal and the stored measurement of the active cause is at or
\* below its threshold; the other five readings are not examined.
C35_SalidaCausaResuelta ==
    [][(EnSeguridad(estado_protesis) /\ ~estado_protesis'.en_seguridad)
       => /\ estado_protesis'.estado_actual = ESTADO_NORMAL
          /\ Medida_Resuelta(estado_protesis'.error_actual,
                             estado_protesis'.condiciones)
          /\ estado_protesis'.condiciones = estado_protesis.condiciones]_vars

\* C35 witness: the machine has left safety with the temperature, the active
\* cause, back at 50 and the current at 3, beyond its threshold.
C35_Testigo ==
    /\ op = "cambiarFase"
    /\ ~estado_protesis.en_seguridad
    /\ estado_protesis.estado_actual = ESTADO_NORMAL
    /\ estado_protesis.error_actual = causa_sobrecalentameinto
    /\ estado_protesis.condiciones.temperatura = 50
    /\ estado_protesis.condiciones.corriente_motores = 3

Distancia(a, b) == IF a >= b THEN a - b ELSE b - a

\* C40: a poll returns true only with the position within the margin of the
\* position at the poll that started the window. Fails: the remembered
\* position follows every poll, so a position that advances by the margin
\* from poll to poll is reported.
C40_EstableDesdeElInicio ==
    \A pos1 \in 0..MaxPos, pos2 \in 0..MaxPos, pos3 \in 0..MaxPos :
        LET r1 == checkMotorPressure(presion, pos1, tiempo)
            r2 == checkMotorPressure(r1.p, pos2, tiempo + 1)
            r3 == checkMotorPressure(r2.p, pos3, tiempo + TiempoEstable)
        IN  (presion.tiempoPresion = 0 \/ ~EnMargen(presion, pos1)) =>
              /\ r2.ret => Distancia(pos2, pos1) <= margenPresion
              /\ (EnMargen(r1.p, pos2) /\ ~r2.ret /\ r3.ret)
                    => Distancia(pos3, pos1) <= margenPresion

\* C37: at every instant, the states between the duty write and the
\* phase-pin write of a rotate call included, a duty above 0 with the phase
\* pin at Close comes with a position below max_pos, and with the pin at Open
\* with a position above min_pos, the position being the one the command was
\* issued on; the pin level is one a command has written. Fails: the duty is
\* written before the pin, so a command that reverses the direction at a
\* limit drives toward that limit until the pin is written.
C37_OrdenDentroDeLimites ==
    (motor.duty > 0 /\ llamada.escrito) =>
        /\ motor.ph = CERRAR => llamada.emitida < motor.max_pos
        /\ motor.ph = ABRIR => llamada.emitida > motor.min_pos

\* C38: with no rotate_until call in progress, the position is never on the
\* objective with the duty above 0 and the target disarmed. Fails: the
\* interrupt that reaches the objective after the checks of the call stops
\* the motor and disarms the target, and the call then writes its duty.
C38_ParadaNoDeshecha ==
    llamada.pc = "reposo" =>
        ~(/\ motor.position = motor.objective
          /\ motor.duty > 0
          /\ ~motor.until)

\* C39: the first Close tick after a tick that did not command Close reports
\* arrival only when the controller does: the detector has been polled for
\* no time in this episode. Fails: tiempoPresion and posicionAnterior are
\* statics that keep the window opened in an earlier episode.
C39_PresionDelEpisodio ==
    [][(/\ op' = "activacionMotores"
        /\ estado_protesis.estado_actual = ESTADO_NORMAL
        /\ ~motorCerrar
        /\ motorCerrar')
       => motorArrived'
             = motores_start_until(motor, CERRAR, POSICION_MAXIMA_MOTOR,
                                   velocidad_motor_procesada').ret]_vars

====
